---- MODULE Spec2Model ----
(***************************************************************************)
(* Model of src/infra/terraform/lambda/cost_optimizer.py: one invocation   *)
(* of handler, stepped at its external calls (billing query, inventory     *)
(* queries, publish), with the analyzers and the report formatter as       *)
(* operators computed the way the code computes them.                      *)
(*                                                                         *)
(* Strings the code inspects character by character (instance types, DB    *)
(* classes) are sequences of one-character strings.  Costs are whole       *)
(* currency units.  A printed percentage is kept in tenths of a percent    *)
(* (334 is "33.4%"), a printed amount of money as its digits.              *)
(*                                                                         *)
(* The file is a deployment template: lines 106, 210, 227 and 249 carry    *)
(* ${project_name} / ${environment} placeholders.  Packaged as it stands,  *)
(* line 249 is an f-string that looks up project_name, a name no scope of  *)
(* generate_cost_report binds, and raises NameError.  Packaged with the    *)
(* placeholders substituted, the header is plain text.  Which of the two   *)
(* the build produced is the variable templated, chosen in Init.           *)
(***************************************************************************)
EXTENDS Integers, Sequences, FiniteSets, TLC

\* ---------------------------------------------------------------- bounds
\* items the external queries of one invocation return together: the groups
\* of the billing response and the resources of the inventory queries
MaxItems == 4
\* largest amount of one service in the formatter's own specification
MaxAmount == 3

\* ------------------------------------------------------ program constants
EC2_THRESHOLD == 100
RDS_THRESHOLD == 50
S3_THRESHOLD == 20
EBS_THRESHOLD == 30
RETENTION_LIMIT == 7
\* 0.10 per GB and month, in cents
RATE_CENTS_PER_GB == 10
TOP_N == 5

EC2 == "Amazon Elastic Compute Cloud - Compute"
RDS == "Amazon Relational Database Service"
S3 == "Amazon Simple Storage Service"
EBS == "Amazon Elastic Block Store"

\* ------------------------------------------------------------ input sets
Services == {EC2, RDS, S3, EBS}

Threshold(s) ==
  CASE s = EC2 -> EC2_THRESHOLD
    [] s = RDS -> RDS_THRESHOLD
    [] s = S3 -> S3_THRESHOLD
    [] s = EBS -> EBS_THRESHOLD

ServiceOrder == <<EC2, RDS, S3, EBS>>
Rank(s) == CHOOSE i \in 1..Len(ServiceOrder) : ServiceOrder[i] = s

\* amounts a billing group may carry: at and just above the service's threshold
GroupAmounts(s) == {Threshold(s), Threshold(s) + 1}

M5Large == <<"m", "5", ".", "l", "a", "r", "g", "e">>
M5XLarge == <<"m", "5", ".", "x", "l", "a", "r", "g", "e">>
T3Large == <<"t", "3", ".", "l", "a", "r", "g", "e">>
T3Micro == <<"t", "3", ".", "m", "i", "c", "r", "o">>
InstanceTypes == {M5Large, M5XLarge, T3Large, T3Micro}

DbMicro == <<"d", "b", ".", "t", "3", ".", "m", "i", "c", "r", "o">>
DbXLarge == <<"d", "b", ".", "r", "5", ".", "x", "l", "a", "r", "g", "e">>
DbClasses == {DbMicro, DbXLarge}

\* Python's None
None == "None"
SpotRequests == {None, "sir-1"}
\* BackupRetentionPeriod: <<>> when the key is absent, <<d>> when it holds d days
Retentions == {<<>>, <<7>>, <<8>>}
VolumeSizes == {7, 50}

\* what an inventory query gave: not issued, raised, or the list it returned
NotQueried == [status |-> "not queried", items |-> <<>>]
Failed == [status |-> "failed", items |-> <<>>]
Returned(list) == [status |-> "ok", items |-> list]

SeqsUpTo(S, n) == UNION {[1..k -> S] : k \in 0..n}

InstanceKinds == [InstanceType : InstanceTypes, SpotInstanceRequestId : SpotRequests]
DbKinds == [DBInstanceClass : DbClasses, BackupRetentionPeriod : Retentions]

\* the lists a query may return, of at most n resources, ids by position
RunningLists(n) ==
  {[i \in 1..Len(ks) |-> [InstanceId |-> <<"i-run", i>>,
                          InstanceType |-> ks[i].InstanceType,
                          SpotInstanceRequestId |-> ks[i].SpotInstanceRequestId]]
     : ks \in SeqsUpTo(InstanceKinds, n)}
DbLists(n) ==
  {[i \in 1..Len(ks) |-> [DBInstanceIdentifier |-> <<"db", i>>,
                          DBInstanceClass |-> ks[i].DBInstanceClass,
                          BackupRetentionPeriod |-> ks[i].BackupRetentionPeriod]]
     : ks \in SeqsUpTo(DbKinds, n)}
StoppedLists(n) ==
  {[i \in 1..k |-> [InstanceId |-> <<"i-stop", i>>]] : k \in 0..n}
VolumeLists(n) ==
  {[i \in 1..Len(ss) |-> [VolumeId |-> <<"vol", i>>, Size |-> ss[i]]]
     : ss \in SeqsUpTo(VolumeSizes, n)}

\* ------------------------------------------------------------- helpers
StartsWith(s, p) == Len(s) >= Len(p) /\ SubSeq(s, 1, Len(p)) = p
Contains(s, p) ==
  \E i \in 1..(Len(s) - Len(p) + 1) : SubSeq(s, i, i + Len(p) - 1) = p

RECURSIVE Flatten(_)
Flatten(ss) == IF ss = <<>> THEN <<>> ELSE Head(ss) \o Flatten(Tail(ss))

RECURSIVE SumSeq(_)
SumSeq(s) == IF s = <<>> THEN 0 ELSE Head(s) + SumSeq(Tail(s))

Succeeded(q) == q.status = "ok"

\* service_costs is an insertion-ordered dict: a sequence of [service, cost]
HasKey(costs, s) == \E i \in 1..Len(costs) : costs[i].service = s
\* service_costs.get(s, Decimal('0'))
Get(costs, s) ==
  IF HasKey(costs, s)
  THEN (CHOOSE e \in {costs[i] : i \in 1..Len(costs)} : e.service = s).cost
  ELSE 0
\* service_costs[service] = service_costs.get(service, 0) + cost
Accumulate(costs, s, a) ==
  IF HasKey(costs, s)
  THEN [i \in 1..Len(costs) |->
          IF costs[i].service = s
          THEN [service |-> s, cost |-> costs[i].cost + a]
          ELSE costs[i]]
  ELSE Append(costs, [service |-> s, cost |-> a])

\* ------------------------------------------------------------ analyzers
\* line 115: instance_type.startswith('m5.large') or .startswith('m5.xlarge')
IsOversized(instance_type) ==
  StartsWith(instance_type, M5Large) \/ StartsWith(instance_type, M5XLarge)

\* lines 112-131: what one running instance appends
InstanceRecs(instance) ==
  (IF IsOversized(instance.InstanceType)
   THEN <<[type |-> "EC2_RIGHTSIZING",
           resource |-> instance.InstanceId,
           current_type |-> instance.InstanceType,
           recommendation |-> "Consider downsizing to m5.medium if CPU utilization is consistently low",
           potential_savings |-> <<"Up to 50% cost reduction">>]>>
   ELSE <<>>)
  \o
  (IF instance.SpotInstanceRequestId = None
   THEN <<[type |-> "EC2_SPOT_INSTANCES",
           resource |-> instance.InstanceId,
           recommendation |-> "Consider using Spot instances for non-critical workloads",
           potential_savings |-> <<"Up to 70% cost reduction">>]>>
   ELSE <<>>)

\* a threshold that a cost reaches rather than exceeds
Ec2TriggeredAtThreshold(service_costs) ==
  Get(service_costs, EC2) >= EC2_THRESHOLD

\* line 100: the analyzer queries the inventory at all
Ec2Triggered(service_costs) == Get(service_costs, EC2) > EC2_THRESHOLD

\* analyze_ec2_costs, given what describe_instances gave
analyze_ec2_costs(running, service_costs) ==
  IF Ec2Triggered(service_costs) /\ Succeeded(running)
  THEN Flatten([i \in 1..Len(running.items) |-> InstanceRecs(running.items[i])])
  ELSE <<>>

\* line 153: 'large' in db_class or 'xlarge' in db_class
IsOversizedDb(db_class) ==
  Contains(db_class, <<"l", "a", "r", "g", "e">>)
  \/ Contains(db_class, <<"x", "l", "a", "r", "g", "e">>)

\* line 163: db_instance.get('BackupRetentionPeriod', 0)
BackupRetention(db_instance) ==
  IF db_instance.BackupRetentionPeriod = <<>> THEN 0
  ELSE db_instance.BackupRetentionPeriod[1]

\* lines 150-171: what one database instance appends
DbRecs(db_instance) ==
  (IF IsOversizedDb(db_instance.DBInstanceClass)
   THEN <<[type |-> "RDS_RIGHTSIZING",
           resource |-> db_instance.DBInstanceIdentifier,
           current_class |-> db_instance.DBInstanceClass,
           recommendation |-> "Monitor CPU and memory utilization to determine if downsizing is possible",
           potential_savings |-> <<"Up to 40% cost reduction">>]>>
   ELSE <<>>)
  \o
  (IF BackupRetention(db_instance) > RETENTION_LIMIT
   THEN <<[type |-> "RDS_BACKUP_OPTIMIZATION",
           resource |-> db_instance.DBInstanceIdentifier,
           current_retention |-> <<BackupRetention(db_instance), "days">>,
           recommendation |-> "Consider reducing backup retention period if not required for compliance",
           potential_savings |-> <<"Reduce backup storage costs">>]>>
   ELSE <<>>)

\* line 144
RdsTriggered(service_costs) == Get(service_costs, RDS) > RDS_THRESHOLD

\* analyze_rds_costs, given what describe_db_instances gave
analyze_rds_costs(dbs, service_costs) ==
  IF RdsTriggered(service_costs) /\ Succeeded(dbs)
  THEN Flatten([i \in 1..Len(dbs.items) |-> DbRecs(dbs.items[i])])
  ELSE <<>>

analyze_storage_costs(service_costs) ==
  (IF Get(service_costs, S3) > S3_THRESHOLD
   THEN <<[type |-> "S3_LIFECYCLE_OPTIMIZATION",
           recommendation |-> "Implement S3 lifecycle policies to transition old objects to cheaper storage classes",
           potential_savings |-> <<"Up to 60% on storage costs for infrequently accessed data">>]>>
   ELSE <<>>)
  \o
  (IF Get(service_costs, EBS) > EBS_THRESHOLD
   THEN <<[type |-> "EBS_OPTIMIZATION",
           recommendation |-> "Review EBS volumes for unused or oversized volumes, consider gp3 over gp2",
           potential_savings |-> <<"Up to 20% on EBS costs">>]>>
   ELSE <<>>)

\* a rate of 0.01 per GB
MonthlySavingsPerCent(size) ==
  <<"$", size \div 100, ".", (size % 100) \div 10, size % 10, "/month">>

\* potential_savings is a sequence of the pieces of its text
\* line 237: f"${float(volume['Size']) * 0.10:.2f}/month", as its digits
MonthlySavings(size) ==
  LET cents == size * RATE_CENTS_PER_GB
  IN <<"$", cents \div 100, ".", (cents % 100) \div 10, cents % 10, "/month">>

\* lines 216-221
StoppedRec(instance) ==
  [type |-> "UNUSED_EC2_INSTANCE",
   resource |-> instance.InstanceId,
   recommendation |-> "Consider terminating long-stopped instances if no longer needed",
   potential_savings |-> <<"Eliminate EBS storage costs">>]

\* lines 232-238
VolumeRec(volume) ==
  [type |-> "UNATTACHED_EBS_VOLUME",
   resource |-> volume.VolumeId,
   size |-> <<volume.Size, "GB">>,
   recommendation |-> "Delete unattached EBS volumes if no longer needed",
   potential_savings |-> MonthlySavings(volume.Size)]

\* an except clause that returns []
UnusedAfterFailureEmpty(gathered) == <<>>

\* what the except clause of check_unused_resources returns: the list as it
\* stood when the query raised (line 243 returns recommendations, not [])
UnusedAfterFailure(gathered) == gathered

\* check_unused_resources, given what the two queries gave (the volume
\* query is not issued when the stopped-instance query raised)
check_unused_resources(stopped, volumes) ==
  IF ~Succeeded(stopped) THEN UnusedAfterFailure(<<>>)
  ELSE LET gathered == [i \in 1..Len(stopped.items) |-> StoppedRec(stopped.items[i])]
       IN IF ~Succeeded(volumes) THEN UnusedAfterFailure(gathered)
          ELSE gathered \o [i \in 1..Len(volumes.items) |-> VolumeRec(volumes.items[i])]

\* ------------------------------------------------------ report formatter
\* insert e behind every entry whose cost is not smaller: equal costs keep
\* their order (sorted(..., reverse=True) is stable)
RECURSIVE InsertByCost(_, _)
InsertByCost(sorted, e) ==
  IF sorted = <<>> THEN <<e>>
  ELSE IF Head(sorted).cost >= e.cost
       THEN <<Head(sorted)>> \o InsertByCost(Tail(sorted), e)
       ELSE <<e>> \o sorted

RECURSIVE SortByCost(_, _)
SortByCost(done, rest) ==
  IF rest = <<>> THEN done
  ELSE SortByCost(InsertByCost(done, Head(rest)), Tail(rest))

\* line 259
sorted_services(service_costs) == SortByCost(<<>>, service_costs)

\* n/d to the nearest integer, a tie to the even one (Decimal's format)
RoundHalfEven(n, d) ==
  LET q == n \div d
      r == n % d
  IN IF 2 * r < d THEN q
     ELSE IF 2 * r > d THEN q + 1
     ELSE IF q % 2 = 0 THEN q ELSE q + 1

\* a percentage cut after its first decimal instead of rounded
PercentageTruncated(cost, total_cost) ==
  IF total_cost > 0 THEN (cost * 1000) \div total_cost ELSE 0

\* lines 262-263: (cost / total_cost * 100) if total_cost > 0 else 0, printed
\* with one decimal; the value is the printed number in tenths of a percent
Percentage(cost, total_cost) ==
  IF total_cost > 0 THEN RoundHalfEven(cost * 1000, total_cost) ELSE 0

\* lines 261-263: the lines of the top services section
TopLines(service_costs, total_cost) ==
  LET sorted == sorted_services(service_costs)
      n == IF Len(sorted) < TOP_N THEN Len(sorted) ELSE TOP_N
  IN [i \in 1..n |-> [service |-> sorted[i].service,
                      cost |-> sorted[i].cost,
                      percentage |-> Percentage(sorted[i].cost, total_cost)]]

\* line 269: rec['type'].replace('_', ' ').title()
Title(type) ==
  CASE type = "EC2_RIGHTSIZING" -> "Ec2 Rightsizing"
    [] type = "EC2_SPOT_INSTANCES" -> "Ec2 Spot Instances"
    [] type = "RDS_RIGHTSIZING" -> "Rds Rightsizing"
    [] type = "RDS_BACKUP_OPTIMIZATION" -> "Rds Backup Optimization"
    [] type = "S3_LIFECYCLE_OPTIMIZATION" -> "S3 Lifecycle Optimization"
    [] type = "EBS_OPTIMIZATION" -> "Ebs Optimization"
    [] type = "UNUSED_EC2_INSTANCE" -> "Unused Ec2 Instance"
    [] type = "UNATTACHED_EBS_VOLUME" -> "Unattached Ebs Volume"

\* lines 269-274: the lines of item i
ItemLines(i, rec) ==
  <<<<"Item", i, Title(rec.type)>>>>
  \o (IF "resource" \in DOMAIN rec THEN <<<<"Resource", rec.resource>>>> ELSE <<>>)
  \o <<<<"Recommendation", rec.recommendation>>>>
  \o (IF "potential_savings" \in DOMAIN rec
      THEN <<<<"Potential Savings", rec.potential_savings>>>> ELSE <<>>)

NoReport == [status |-> "none", top |-> <<>>, found |-> 0, items |-> <<>>]
RaisedReport == [status |-> "raised", top |-> <<>>, found |-> 0, items |-> <<>>]

\* generate_cost_report with its header's names bound; found is the count of
\* the "(n found)" heading, and no items stands for the fixed sentence
RenderedReport(service_costs, total_cost, recommendations) ==
  [status |-> "rendered",
   top |-> TopLines(service_costs, total_cost),
   found |-> Len(recommendations),
   items |-> [i \in 1..Len(recommendations) |-> ItemLines(i, recommendations[i])]]

\* generate_cost_report: line 249 raises NameError unless the placeholders
\* were substituted when the file was packaged
generate_cost_report(names_bound, service_costs, total_cost, recommendations) ==
  IF names_bound
  THEN RenderedReport(service_costs, total_cost, recommendations)
  ELSE RaisedReport

\* -------------------------------------------------------------- handler
\* an assignment in place of extend
ExtendReplacing(recommendations, new) == new

\* new recommendations put in front of the list
ExtendInFront(recommendations, new) == new \o recommendations

\* lines 62-67: recommendations.extend(...)
Extend(recommendations, new) == recommendations \o new

\* a notification sent whatever the list holds
ShouldNotifyAlways(recommendations) == TRUE

\* line 73: if recommendations
ShouldNotify(recommendations) == recommendations # <<>>

\* lines 76-83
OkResponse(total_cost, recommendations) ==
  [statusCode |-> 200,
   message |-> "Cost optimization analysis completed",
   total_cost |-> total_cost,
   recommendations_count |-> Len(recommendations)]

\* lines 85-92
ErrorResponse(e) == [statusCode |-> 500, error |-> e]

NoResponse == [statusCode |-> 0]

VARIABLES
  pc,               \* where handler stands
  templated,        \* the build substituted the ${...} placeholders
  billing,          \* "pending", "ok" or "failed": get_cost_and_usage
  groups,           \* groups of the billing response consumed so far
  service_costs,    \* line 51
  total_cost,       \* line 52
  recommendations,  \* line 22
  inv,              \* what each inventory query gave
  parts,            \* what each analyzer returned
  report,           \* line 70
  published,        \* the publish calls made, in order
  response          \* what handler returned

vars == <<pc, templated, billing, groups, service_costs, total_cost,
          recommendations, inv, parts, report, published, response>>

\* items the queries of this invocation returned so far, and the room left
ReturnedSoFar ==
  groups + Len(inv.running.items) + Len(inv.dbs.items)
  + Len(inv.stopped.items) + Len(inv.volumes.items)
Room == MaxItems - ReturnedSoFar

Init ==
  /\ pc = "billing"
  /\ templated \in BOOLEAN
  /\ billing = "pending"
  /\ groups = 0
  /\ service_costs = <<>>
  /\ total_cost = 0
  /\ recommendations = <<>>
  /\ inv = [running |-> NotQueried, dbs |-> NotQueried,
            stopped |-> NotQueried, volumes |-> NotQueried]
  /\ parts = [ec2 |-> <<>>, rds |-> <<>>, storage |-> <<>>, unused |-> <<>>]
  /\ report = NoReport
  /\ published = <<>>
  /\ response = NoResponse

\* a billing failure that is swallowed: the analysis goes on over no costs
BillingFailsSwallowed ==
  /\ pc = "billing"
  /\ billing' = "failed"
  /\ pc' = "aggregate"
  /\ UNCHANGED <<templated, groups, service_costs, total_cost, recommendations,
                 inv, parts, report, published, response>>

\* lines 29-48 raise: the except clause of line 85 answers
BillingFails ==
  /\ pc = "billing"
  /\ billing' = "failed"
  /\ response' = ErrorResponse("get_cost_and_usage failed")
  /\ pc' = "done"
  /\ UNCHANGED <<templated, groups, service_costs, total_cost, recommendations,
                 inv, parts, report, published>>

\* lines 29-48 return a response
BillingSucceeds ==
  /\ pc = "billing"
  /\ billing' = "ok"
  /\ pc' = "aggregate"
  /\ UNCHANGED <<templated, groups, service_costs, total_cost, recommendations,
                 inv, parts, report, published, response>>

\* lines 54-59, one group of the response; the groups come service by
\* service, in the order of ServiceOrder, a service possibly more than once
\* (one group for each time bucket that names it)
AccumulateGroup ==
  /\ pc = "aggregate"
  /\ Room > 0
  /\ \E s \in Services : \E a \in GroupAmounts(s) :
       /\ service_costs # <<>> =>
            Rank(service_costs[Len(service_costs)].service) <= Rank(s)
       /\ service_costs' = Accumulate(service_costs, s, a)
       /\ total_cost' = total_cost + a
  /\ groups' = groups + 1
  /\ UNCHANGED <<pc, templated, billing, recommendations, inv, parts, report,
                 published, response>>

\* lines 54-59, the response is exhausted
EndOfResults ==
  /\ pc = "aggregate"
  /\ pc' = "ec2"
  /\ UNCHANGED <<templated, billing, groups, service_costs, total_cost,
                 recommendations, inv, parts, report, published, response>>

\* line 62, with what describe_instances (running) gave
Ec2Step(running) ==
  /\ inv' = [inv EXCEPT !.running = running]
  /\ parts' = [parts EXCEPT !.ec2 = analyze_ec2_costs(running, service_costs)]
  /\ recommendations' = Extend(recommendations, parts'.ec2)
  /\ pc' = "rds"
  /\ UNCHANGED <<templated, billing, groups, service_costs, total_cost, report,
                 published, response>>

AnalyzeEc2 ==
  /\ pc = "ec2"
  /\ IF Ec2Triggered(service_costs)
     THEN \E running \in {Failed} \cup {Returned(l) : l \in RunningLists(Room)} :
            Ec2Step(running)
     ELSE Ec2Step(NotQueried)

\* line 63, with what describe_db_instances gave
RdsStep(dbs) ==
  /\ inv' = [inv EXCEPT !.dbs = dbs]
  /\ parts' = [parts EXCEPT !.rds = analyze_rds_costs(dbs, service_costs)]
  /\ recommendations' = Extend(recommendations, parts'.rds)
  /\ pc' = "storage"
  /\ UNCHANGED <<templated, billing, groups, service_costs, total_cost, report,
                 published, response>>

AnalyzeRds ==
  /\ pc = "rds"
  /\ IF RdsTriggered(service_costs)
     THEN \E dbs \in {Failed} \cup {Returned(l) : l \in DbLists(Room)} :
            RdsStep(dbs)
     ELSE RdsStep(NotQueried)

\* line 64
AnalyzeStorage ==
  /\ pc = "storage"
  /\ parts' = [parts EXCEPT !.storage = analyze_storage_costs(service_costs)]
  /\ recommendations' = Extend(recommendations, parts'.storage)
  /\ pc' = "unused"
  /\ UNCHANGED <<templated, billing, groups, service_costs, total_cost, inv,
                 report, published, response>>

\* line 67, with what describe_instances (stopped) and describe_volumes gave
UnusedStep(stopped, volumes) ==
  /\ inv' = [inv EXCEPT !.stopped = stopped, !.volumes = volumes]
  /\ parts' = [parts EXCEPT !.unused = check_unused_resources(stopped, volumes)]
  /\ recommendations' = Extend(recommendations, parts'.unused)
  /\ pc' = "report"
  /\ UNCHANGED <<templated, billing, groups, service_costs, total_cost, report,
                 published, response>>

CheckUnused ==
  /\ pc = "unused"
  /\ \/ UnusedStep(Failed, NotQueried)
     \/ \E s \in StoppedLists(Room) :
          \/ UnusedStep(Returned(s), Failed)
          \/ \E v \in VolumeLists(Room - Len(s)) :
               UnusedStep(Returned(s), Returned(v))

\* line 70; a NameError is answered by the except clause of line 85
GenerateReport ==
  /\ pc = "report"
  /\ report' = generate_cost_report(templated, service_costs, total_cost,
                                    recommendations)
  /\ IF report'.status = "rendered"
     THEN pc' = "notify" /\ UNCHANGED response
     ELSE /\ pc' = "done"
          /\ response' = ErrorResponse("name 'project_name' is not defined")
  /\ UNCHANGED <<templated, billing, groups, service_costs, total_cost,
                 recommendations, inv, parts, published>>

\* lines 73-74 and send_notification: one publish call, its failure caught
SendNotification ==
  /\ pc = "notify"
  /\ ShouldNotify(recommendations)
  /\ \E delivered \in BOOLEAN :
       published' = Append(published, [message |-> report, delivered |-> delivered])
  /\ pc' = "return"
  /\ UNCHANGED <<templated, billing, groups, service_costs, total_cost,
                 recommendations, inv, parts, report, response>>

\* line 73 is false
SkipNotification ==
  /\ pc = "notify"
  /\ ~ShouldNotify(recommendations)
  /\ pc' = "return"
  /\ UNCHANGED <<templated, billing, groups, service_costs, total_cost,
                 recommendations, inv, parts, report, published, response>>

\* lines 76-83
Respond ==
  /\ pc = "return"
  /\ response' = OkResponse(total_cost, recommendations)
  /\ pc' = "done"
  /\ UNCHANGED <<templated, billing, groups, service_costs, total_cost,
                 recommendations, inv, parts, report, published>>

Next ==
  \/ BillingFails
  \/ BillingSucceeds
  \/ AccumulateGroup
  \/ EndOfResults
  \/ AnalyzeEc2
  \/ AnalyzeRds
  \/ AnalyzeStorage
  \/ CheckUnused
  \/ GenerateReport
  \/ SendNotification
  \/ SkipNotification
  \/ Respond

Spec == Init /\ [][Next]_vars

\* ------------------------------------------ the formatter on its own inputs
\* generate_cost_report as a function of the cost mapping: the handler stands
\* at line 70 after a billing response of up to six services, every amount
\* below every threshold, and two empty unused-resource listings
ReportServices ==
  <<EC2, RDS, S3, EBS, "AWS Lambda", "AmazonCloudWatch">>

\* the mapping of the amounts f, in the order of ReportServices; an amount
\* of -1 stands for a service the response does not name
RECURSIVE CostsFrom(_, _)
CostsFrom(f, i) ==
  IF i > Len(ReportServices) THEN <<>>
  ELSE (IF f[i] < 0 THEN <<>>
        ELSE <<[service |-> ReportServices[i], cost |-> f[i]]>>)
       \o CostsFrom(f, i + 1)

InitReport ==
  /\ pc = "report"
  /\ templated \in BOOLEAN
  /\ billing = "ok"
  /\ \E f \in [1..Len(ReportServices) -> (-1)..MaxAmount] :
       /\ service_costs = CostsFrom(f, 1)
       /\ total_cost = SumSeq([i \in 1..Len(service_costs) |-> service_costs[i].cost])
  /\ groups = Len(service_costs)
  /\ recommendations = <<>>
  /\ inv = [running |-> NotQueried, dbs |-> NotQueried,
            stopped |-> Returned(<<>>), volumes |-> Returned(<<>>)]
  /\ parts = [ec2 |-> <<>>, rds |-> <<>>, storage |-> <<>>, unused |-> <<>>]
  /\ report = NoReport
  /\ published = <<>>
  /\ response = NoResponse

NextReport ==
  \/ GenerateReport
  \/ SkipNotification
  \/ Respond

SpecReport == InitReport /\ [][NextReport]_vars

\* --------------------------------------------------------------- claims
\* the four analyzers have returned (handler stands at line 70 or later)
AnalysisDone ==
  billing = "ok" /\ pc \in {"report", "notify", "return", "done"}
Queried(q) == q.status # "not queried"
Position(rec) == rec.resource[2]
CountOf(recs, id, type) ==
  Cardinality({i \in 1..Len(recs) : recs[i].resource = id /\ recs[i].type = type})

\* C1: publish is called only if the combined recommendation list is
\* non-empty; an invocation that ends with an empty list never called it.
C1_PublishOnlyWithRecommendations ==
  /\ published # <<>> => recommendations # <<>>
  /\ (pc = "done" /\ recommendations = <<>>) => published = <<>>

\* C1 witness: handler got past line 73 with an empty list and answered 200
C1_Witness ==
  /\ pc = "done"
  /\ response.statusCode = 200
  /\ recommendations = <<>>
  /\ published = <<>>

\* C2: when the billing query fails, handler answers 500 with an error
\* message, no inventory query is issued and nothing is published.
C2_BillingFailureAborts ==
  billing = "failed" =>
    /\ pc = "done"
    /\ response.statusCode = 500
    /\ "error" \in DOMAIN response
    /\ ~Queried(inv.running) /\ ~Queried(inv.dbs)
    /\ ~Queried(inv.stopped) /\ ~Queried(inv.volumes)
    /\ recommendations = <<>>
    /\ published = <<>>

\* C2 witness: the billing query failed and handler has returned
C2_Witness == billing = "failed" /\ pc = "done" /\ response.statusCode = 500

\* C3 (as claimed): when the billing query succeeds, handler answers 200 with
\* recommendations_count the length of the combined list, whatever the
\* inventory queries and the publish call did.
C3_SuccessAnswers200 ==
  (pc = "done" /\ billing = "ok") =>
    /\ response.statusCode = 200
    /\ response.recommendations_count = Len(recommendations)

AloneIfNotFailing ==
  (IF inv.running.status = "failed" THEN <<>>
   ELSE analyze_ec2_costs(inv.running, service_costs))
  \o (IF inv.dbs.status = "failed" THEN <<>>
      ELSE analyze_rds_costs(inv.dbs, service_costs))
  \o analyze_storage_costs(service_costs)
  \o (IF inv.stopped.status = "failed" \/ inv.volumes.status = "failed" THEN <<>>
      ELSE check_unused_resources(inv.stopped, inv.volumes))

\* every analyzer ran: each query its analyzer is due was issued
EveryAnalyzerRan ==
  /\ Queried(inv.running) <=> Get(service_costs, EC2) > EC2_THRESHOLD
  /\ Queried(inv.dbs) <=> Get(service_costs, RDS) > RDS_THRESHOLD
  /\ Queried(inv.stopped)

C6_PublishedExactlyOnce ==
  (pc = "done" /\ billing = "ok" /\ recommendations # <<>>) =>
    /\ Len(published) = 1
    /\ published[1].message = report

\* resources of one analyzer's list follow the inventory order, and for one
\* resource the recommendation of type first precedes that of type second
InventoryOrder(recs, first, second) ==
  \A i, j \in 1..Len(recs) :
    i < j =>
      \/ Position(recs[i]) < Position(recs[j])
      \/ /\ Position(recs[i]) = Position(recs[j])
         /\ recs[i].type = first /\ recs[j].type = second

TypesOf(recs) == {recs[i].type : i \in 1..Len(recs)}

\* C7: the combined list is the compute analyzer's recommendations, then the
\* database analyzer's, then the storage analyzer's, then the unused-resource
\* analyzer's; within an analyzer they follow the inventory order
\* (rightsizing before spot, rightsizing before backup retention, stopped
\* instances before volumes); and item i of a rendered report is element i.
C7_OrderPreserved ==
  AnalysisDone =>
    /\ recommendations = parts.ec2 \o parts.rds \o parts.storage \o parts.unused
    /\ TypesOf(parts.ec2) \subseteq {"EC2_RIGHTSIZING", "EC2_SPOT_INSTANCES"}
    /\ TypesOf(parts.rds) \subseteq {"RDS_RIGHTSIZING", "RDS_BACKUP_OPTIMIZATION"}
    /\ TypesOf(parts.storage) \subseteq {"S3_LIFECYCLE_OPTIMIZATION", "EBS_OPTIMIZATION"}
    /\ TypesOf(parts.unused) \subseteq {"UNUSED_EC2_INSTANCE", "UNATTACHED_EBS_VOLUME"}
    /\ InventoryOrder(parts.ec2, "EC2_RIGHTSIZING", "EC2_SPOT_INSTANCES")
    /\ InventoryOrder(parts.rds, "RDS_RIGHTSIZING", "RDS_BACKUP_OPTIMIZATION")
    /\ \A i, j \in 1..Len(parts.unused) :
         i < j =>
           \/ /\ parts.unused[i].type = "UNUSED_EC2_INSTANCE"
              /\ parts.unused[j].type = "UNATTACHED_EBS_VOLUME"
           \/ /\ parts.unused[i].type = parts.unused[j].type
              /\ Position(parts.unused[i]) < Position(parts.unused[j])
    /\ report.status = "rendered" =>
         /\ Len(report.items) = Len(recommendations)
         /\ \A i \in 1..Len(report.items) :
              /\ report.items[i][1] = <<"Item", i, Title(recommendations[i].type)>>
              /\ <<"Recommendation", recommendations[i].recommendation>>
                   \in {report.items[i][k] : k \in 1..Len(report.items[i])}
              /\ "resource" \in DOMAIN recommendations[i] =>
                   report.items[i][2] = <<"Resource", recommendations[i].resource>>

\* C7 witness: a rendered report over recommendations of three analyzers,
\* the compute analyzer's being a rightsizing and a spot one
C7_Witness ==
  /\ pc = "done"
  /\ report.status = "rendered"
  /\ Len(parts.ec2) = 2
  /\ parts.storage # <<>>
  /\ parts.unused # <<>>

\* C8: the compute analyzer queries the inventory only if the compute cost is
\* strictly above 100 and otherwise returns an empty list; when the query
\* returns, each instance yields one rightsizing recommendation iff its class
\* is m5.large or m5.xlarge and one spot recommendation iff it is no spot
\* instance, and the analyzer returns nothing else.
C8_ComputeAnalyzer ==
  (billing = "ok" /\ pc \notin {"billing", "aggregate", "ec2"}) =>
    LET cost == Get(service_costs, EC2)
        instances == inv.running.items
        Rightsizings(x) == IF x.InstanceType \in {M5Large, M5XLarge} THEN 1 ELSE 0
        Spots(x) == IF x.SpotInstanceRequestId = None THEN 1 ELSE 0
    IN /\ cost <= 100 => ~Queried(inv.running) /\ parts.ec2 = <<>>
       /\ cost > 100 => Queried(inv.running)
       /\ Succeeded(inv.running) =>
            /\ \A k \in 1..Len(instances) :
                 /\ CountOf(parts.ec2, instances[k].InstanceId, "EC2_RIGHTSIZING")
                      = Rightsizings(instances[k])
                 /\ CountOf(parts.ec2, instances[k].InstanceId, "EC2_SPOT_INSTANCES")
                      = Spots(instances[k])
            /\ Len(parts.ec2) =
                 SumSeq([k \in 1..Len(instances) |->
                           Rightsizings(instances[k]) + Spots(instances[k])])

\* C8 witness: a large instance that is no spot instance yielded two
\* recommendations and a spot instance of another class none
C8_Witness ==
  /\ AnalysisDone
  /\ Succeeded(inv.running)
  /\ Len(inv.running.items) = 2
  /\ inv.running.items[1].InstanceType = M5XLarge
  /\ inv.running.items[1].SpotInstanceRequestId = None
  /\ inv.running.items[2].InstanceType = T3Large
  /\ inv.running.items[2].SpotInstanceRequestId # None
  /\ Len(parts.ec2) = 2

\* the printed percentages of the top services section, summed, in tenths
PrintedSum == SumSeq([i \in 1..Len(report.top) |-> report.top[i].percentage])

\* each printed percentage is cost/total*100 to the nearest tenth
NearestTenth ==
  \A i \in 1..Len(report.top) :
    LET diff == report.top[i].percentage * total_cost - 1000 * report.top[i].cost
    IN 2 * diff <= total_cost /\ -2 * diff <= total_cost

SavingsOf(rec, size) ==
  LET s == rec.potential_savings
  IN /\ Len(s) = 6
     /\ s[1] = "$" /\ s[3] = "." /\ s[6] = "/month"
     /\ s[4] \in 0..9 /\ s[5] \in 0..9
     /\ 100 * s[2] + 10 * s[4] + s[5] = 10 * size
     /\ size = 50 => s = <<"$", 5, ".", 0, 0, "/month">>

\* one recommendation per stopped instance, then one per volume
OnePerUnusedResource ==
  LET stopped == inv.stopped.items
      volumes == inv.volumes.items
  IN /\ Len(parts.unused) = Len(stopped) + Len(volumes)
     /\ \A i \in 1..Len(stopped) :
          /\ parts.unused[i].type = "UNUSED_EC2_INSTANCE"
          /\ parts.unused[i].resource = stopped[i].InstanceId
     /\ \A i \in 1..Len(volumes) :
          /\ parts.unused[Len(stopped) + i].type = "UNATTACHED_EBS_VOLUME"
          /\ parts.unused[Len(stopped) + i].resource = volumes[i].VolumeId
          /\ SavingsOf(parts.unused[Len(stopped) + i], volumes[i].Size)

\* C10 (as claimed): whatever the cost mapping, an invocation whose billing
\* query succeeds issues the stopped-instance and the available-volume query
\* and, when both succeed, the analyzer returns one recommendation per
\* stopped instance, then one per volume with savings of size x 0.10.
C10_UnusedAlwaysQueriesBoth ==
  AnalysisDone =>
    /\ Queried(inv.stopped)
    /\ Queried(inv.volumes)
    /\ (Succeeded(inv.stopped) /\ Succeeded(inv.volumes)) => OnePerUnusedResource

\* C10 (amended): whatever the cost mapping, an invocation whose billing
\* query succeeds issues the stopped-instance query, and the available-volume
\* query exactly when the stopped-instance query succeeded; when both
\* succeed, the analyzer returns one recommendation per stopped instance,
\* then one per volume with savings of size x 0.10.
C10_UnusedQueriesVolumesAfterStopped ==
  AnalysisDone =>
    /\ Queried(inv.stopped)
    /\ Queried(inv.volumes) <=> Succeeded(inv.stopped)
    /\ (Succeeded(inv.stopped) /\ Succeeded(inv.volumes)) => OnePerUnusedResource

\* C10 witness: an empty cost mapping, a stopped instance and a 50 GB volume
C10_Witness ==
  /\ AnalysisDone
  /\ service_costs = <<>>
  /\ Len(inv.stopped.items) = 1
  /\ Len(inv.volumes.items) = 1
  /\ inv.volumes.items[1].Size = 50
  /\ parts.unused[2].potential_savings = <<"$", 5, ".", 0, 0, "/month">>
====
